---- MODULE Spec2Model ----
(***************************************************************************)
(* TaskForm (src/unnamed/part_000, lines 63-687): the task submission      *)
(* form.  A state of the model is one committed render of the component    *)
(* (its React state, the atoms and props it reads) together with the       *)
(* passive effects that commit has scheduled and the requests in flight.   *)
(*                                                                         *)
(* runMigrations (src/scripts/migrate.ts) and resetDatabase                *)
(* (src/unnamed/part_000, lines 1-61): the two database scripts, each a    *)
(* process that runs from its environment check to its exit code.          *)
(***************************************************************************)
EXTENDS Integers, Sequences, FiniteSets, Bags, TLC

\* ------------------------------------------------------------------------
\* Bounds of the model
\* ------------------------------------------------------------------------
MaxSubmits == 2        \* onSubmit invocations followed
MaxKeyChecks == 2      \* API-key checks in flight at once
MaxRepoRequests == 2   \* listing requests followed per owner: in flight, and per stay
MaxRuns == 2           \* runs of a database script, one after the other
MaxMigrations == 3     \* migrations in the migrations folder

\* ------------------------------------------------------------------------
\* Static catalog (lines 121-139)
\* ------------------------------------------------------------------------
CODING_AGENTS == <<"codex", "claude", "opencode">>

AGENT_MODELS ==
  [codex |-> <<"gpt-5.1-codex">>,
   claude |-> <<"claude-sonnet-4-5-20250929">>,
   opencode |-> <<"gemini-3-pro-preview">>]

DEFAULT_MODELS ==
  [codex |-> "gpt-5.1-codex",
   claude |-> "claude-sonnet-4-5-20250929",
   opencode |-> "gemini-3-pro-preview"]

defaultAgent == "codex"

Agents == {CODING_AGENTS[i] : i \in 1..Len(CODING_AGENTS)}

\* CODING_AGENTS.some((agent) => agent.value === a); a falsy a ("" stands for
\* null, undefined and the empty string) is rejected before the lookup.
IsKnownAgent(a) == a # "" /\ \E i \in 1..Len(CODING_AGENTS) : CODING_AGENTS[i] = a

\* AGENT_MODELS[a]?.some((model) => model.value === m)
IsAgentModel(a, m) ==
  a \in DOMAIN AGENT_MODELS /\ \E i \in 1..Len(AGENT_MODELS[a]) : AGENT_MODELS[a][i] = m

\* providerNames[data.provider] || data.provider (lines 356-363)
providerNames ==
  [anthropic |-> "Anthropic", openai |-> "OpenAI", cursor |-> "Cursor",
   gemini |-> "Gemini", aigateway |-> "AI Gateway"]

providerName(p) == IF p \in DOMAIN providerNames THEN providerNames[p] ELSE p

\* ------------------------------------------------------------------------
\* Input domains
\* ------------------------------------------------------------------------
Whitespace == {" ", "\n"}

\* prompts typed into the textarea: empty, whitespace only, plain, padded
Prompts == {<<>>, <<" ", "\n">>, <<"x">>, <<" ", "x", "\n">>}

\* String.prototype.trim
trimNone(s) == s

RECURSIVE trimStart(_)
trimStart(s) ==
  IF s = <<>> THEN s
  ELSE IF Head(s) \in Whitespace THEN trimStart(Tail(s)) ELSE s

RECURSIVE trimEnd(_)
trimEnd(s) ==
  IF s = <<>> THEN s
  ELSE IF s[Len(s)] \in Whitespace THEN trimEnd(SubSeq(s, 1, Len(s) - 1)) ELSE s

trim(s) == trimEnd(trimStart(s))

StaleModel == "gpt-5-codex"            \* a model no catalog entry lists any more
UnknownAgent == "cursor"               \* an agent CODING_AGENTS does not list

UrlAgentValues == {"", "claude", "opencode", UnknownAgent}
UrlModelValues == {"", "claude-sonnet-4-5-20250929", StaleModel}
SavedAgentValues == {"", "claude", UnknownAgent}
\* persisted models: none, one per agent that is out of date, and current
\* ones next to one that is out of date
SavedModelValues ==
  {[a \in Agents |-> ""], [a \in Agents |-> StaleModel],
   [a \in Agents |-> IF a = "claude" THEN StaleModel ELSE DEFAULT_MODELS[a]]}

Owners == {"", "o1", "o2"}
RepoNames == {"", "r1", "r2", "r3"}
Durations == {5, 300}

\* value of a githubReposAtomFamily atom: null, or a list of repositories
Null == [isNull |-> TRUE, list |-> <<>>]
RepoList(l) == [isNull |-> FALSE, list |-> l]
GitHubRepo(o, n) == [name |-> n, clone_url |-> <<o, n>>]
\* bodies the listing endpoint answers with for owner o
RepoLists(o) == {<<>>, <<GitHubRepo(o, "r2"), GitHubRepo(o, "r1")>>}

NoPayload ==
  [prompt |-> <<>>, repoUrl |-> "", selectedAgent |-> "", selectedModel |-> "",
   installDependencies |-> FALSE, maxDuration |-> 0, keepAlive |-> FALSE]
NoToast == "none"
Event(k, p, t) == [kind |-> k, payload |-> p, toast |-> t]
ResponseProviders == {"anthropic", "aigateway", "mistral"}

VARIABLES
  urlAgent, urlModel,          \* searchParams.get('agent'), .get('model')
  savedAgent, savedModel,      \* lastSelectedAgentAtom, lastSelectedModelAtomFamily
  selectedAgent, selectedModel,
  prompt,                      \* taskPromptAtom
  selectedOwner, selectedRepo, isSubmitting,          \* props
  installDependencies, maxDuration, keepAlive,
  repos,                       \* githubReposAtomFamily, by owner
  pending,                     \* passive effects the current commit has scheduled
  repoRequests,                \* listing requests in flight, by owner
  keyChecks,                   \* API-key checks in flight, each with its closure
  onSubmitCalls,               \* number of times the onSubmit prop was called
  issued,                      \* listing requests issued since the owner last changed
  chosenAgent, chosenModel,    \* the user's last pick in the agent / model Select
  lastEvent,                   \* the last handler that ran, with what it put out
  script,                      \* the database script this process runs, if any
  POSTGRES_URL,                \* process.env.POSTGRES_URL of the run
  pc,                          \* where the script stands
  clients,                     \* postgres(...) clients created by the run
  ended,                       \* end() calls of the run that have completed
  thrown,                      \* the error that is propagating, "" for none
  raised,                      \* the error the run raised first, "" for none
  exitCode,                    \* <<>> while running, <<code>> after process.exit(code)
  tables,                      \* the enumerated database objects that exist
  started,                     \* the objects that existed when the run started
  applied,                     \* migrations of the folder the database has applied
  runs                         \* runs started so far

formVars == <<urlAgent, urlModel, savedAgent, savedModel, selectedAgent, selectedModel,
              prompt, selectedOwner, selectedRepo, isSubmitting, installDependencies,
              maxDuration, keepAlive, repos, pending, repoRequests, keyChecks,
              onSubmitCalls, issued, chosenAgent, chosenModel, lastEvent>>

scriptVars == <<script, POSTGRES_URL, pc, clients, ended, thrown, raised, exitCode,
                tables, started, applied, runs>>

vars == <<formVars, scriptVars>>

urlVars == <<urlAgent, urlModel>>
agentVars == <<savedAgent, savedModel, selectedAgent, selectedModel, chosenAgent, chosenModel>>
optionVars == <<installDependencies, maxDuration, keepAlive>>
ownerVars == <<selectedOwner, selectedRepo>>
repoVars == <<repos, repoRequests, issued>>
submitVars == <<keyChecks, onSubmitCalls, isSubmitting>>

\* ------------------------------------------------------------------------
\* First render (lines 168-191)
\* ------------------------------------------------------------------------
\* useState initialiser of selectedAgent (lines 181-183)
InitialAgent(sa) == IF IsKnownAgent(sa) THEN sa ELSE defaultAgent

\* useState initialiser of selectedModel (line 184)
InitialModel == DEFAULT_MODELS[defaultAgent]

\* The commit of the first render, for the URL parameters uA, uM, the atoms
\* sA, sM, p, cache and the props o, r, inst, dur, keep the component is
\* mounted with; its three effects are still to run.
Mount(uA, uM, sA, sM, p, o, r, cache, inst, dur, keep) ==
  /\ urlAgent = uA
  /\ urlModel = uM
  /\ savedAgent = sA
  /\ savedModel = sM
  /\ selectedAgent = InitialAgent(sA)
  /\ selectedModel = InitialModel
  /\ prompt = p
  /\ selectedOwner = o
  /\ selectedRepo = r
  /\ isSubmitting = FALSE
  /\ installDependencies = inst
  /\ maxDuration = dur
  /\ keepAlive = keep
  /\ repos = cache
  /\ pending = {"mount", "model", "fetch"}
  /\ repoRequests = [x \in Owners |-> 0]
  /\ keyChecks = EmptyBag
  /\ onSubmitCalls = 0
  /\ issued = 0
  /\ chosenAgent = ""
  /\ chosenModel = ""
  /\ lastEvent = Event("mount", NoPayload, NoToast)

NoCache == [o \in Owners |-> Null]

\* ------------------------------------------------------------------------
\* Passive effects
\* ------------------------------------------------------------------------
MountAgentSavedFirst(cur) ==
  IF savedAgent # "" /\ IsKnownAgent(savedAgent) THEN savedAgent
  ELSE IF IsKnownAgent(urlAgent) THEN urlAgent
  ELSE cur

\* mount effect (lines 240-270): the agent it sets, cur when it sets none
MountAgent(cur) ==
  IF IsKnownAgent(urlAgent) THEN urlAgent
  ELSE IF savedAgent # "" /\ IsKnownAgent(savedAgent) THEN savedAgent
  ELSE cur

\* mount effect: the model it sets, cur when it sets none
MountModel(cur) ==
  IF IsKnownAgent(urlAgent) /\ urlModel # "" /\ IsAgentModel(urlAgent, urlModel)
  THEN urlModel ELSE cur

ModelEffectNoDefault(a, sm, cur) ==
  IF a = "" THEN cur
  ELSE IF sm # "" /\ IsAgentModel(a, sm) THEN sm
  ELSE cur

\* "update model when agent changes" effect (lines 278-291), run with the
\* agent a and saved model sm of the commit that scheduled it
ModelEffect(a, sm, cur) ==
  IF a = "" THEN cur
  ELSE IF sm # "" /\ IsAgentModel(a, sm) THEN sm
  ELSE IF a \in DOMAIN DEFAULT_MODELS THEN DEFAULT_MODELS[a]
  ELSE cur

HasReposNever(cache) == FALSE

\* repos && repos.length > 0 (line 304)
HasRepos(cache) == ~cache.isNull /\ Len(cache.list) > 0

\* the fetch effect (lines 294-322) reaches its fetch call (line 309)
FetchIssues ==
  "fetch" \in pending /\ selectedOwner # "" /\ ~HasRepos(repos[selectedOwner])

\* One flush of the passive effects of the current commit, in declaration
\* order, followed by the render their state updates cause.
RunEffects ==
  /\ pending # {}
  /\ FetchIssues => issued < MaxRepoRequests /\ repoRequests[selectedOwner] < MaxRepoRequests
  /\ LET a == selectedAgent
         a1 == IF "mount" \in pending THEN MountAgent(a) ELSE a
         m1 == IF "mount" \in pending THEN MountModel(selectedModel) ELSE selectedModel
         m2 == IF "model" \in pending THEN ModelEffect(a, savedModel[a], m1) ELSE m1
     IN /\ selectedAgent' = a1
        /\ selectedModel' = m2
        /\ pending' = IF a1 # a \/ savedModel[a1] # savedModel[a] THEN {"model"} ELSE {}
  /\ IF "fetch" \in pending /\ selectedOwner = ""
     THEN repos' = [repos EXCEPT ![selectedOwner] = Null]
     ELSE repos' = repos
  /\ IF FetchIssues
     THEN /\ repoRequests' = [repoRequests EXCEPT ![selectedOwner] = @ + 1]
          /\ issued' = issued + 1
     ELSE UNCHANGED <<repoRequests, issued>>
  /\ UNCHANGED <<scriptVars, urlVars, savedAgent, savedModel, chosenAgent, chosenModel, prompt,
                 ownerVars, optionVars, submitVars, lastEvent>>

\* A handler that sets state makes React render again, and React flushes the
\* passive effects still pending before that render: such handlers are taken
\* on a commit whose effects have run.  handleSubmit sets no state and runs
\* with the closure of whatever commit is on screen.
Settled == pending = {}

RepoResponseToCurrentOwner(o, kind, body) ==
  /\ Settled
  /\ repoRequests[o] > 0
  /\ repoRequests' = [repoRequests EXCEPT ![o] = @ - 1]
  /\ IF kind = "repos:ok"
     THEN /\ repos' = [repos EXCEPT ![selectedOwner] = RepoList(body)]
          /\ pending' = {"fetch"}
     ELSE UNCHANGED <<repos, pending>>
  /\ lastEvent' = Event(kind, NoPayload, NoToast)
  /\ UNCHANGED <<scriptVars, urlVars, agentVars, prompt, ownerVars, optionVars, submitVars, issued>>

\* response to GET /api/github/repos?owner=o (lines 309-318): "repos:ok" with
\* a JSON body, "repos:notok" (non-OK status) or "repos:throws"
RepoResponse(o, kind, body) ==
  /\ Settled
  /\ repoRequests[o] > 0
  /\ repoRequests' = [repoRequests EXCEPT ![o] = @ - 1]
  /\ IF kind = "repos:ok"
     THEN /\ repos' = [repos EXCEPT ![o] = RepoList(body)]
          /\ pending' = IF o = selectedOwner THEN {"fetch"} ELSE {}
     ELSE UNCHANGED <<repos, pending>>
  /\ lastEvent' = Event(kind, NoPayload, NoToast)
  /\ UNCHANGED <<scriptVars, urlVars, agentVars, prompt, ownerVars, optionVars, submitVars, issued>>

\* ------------------------------------------------------------------------
\* Props set by the parent (lines 112-114)
\* ------------------------------------------------------------------------
ParentSelectOwner(o) ==
  /\ Settled
  /\ o # selectedOwner
  /\ selectedOwner' = o
  /\ pending' = {"fetch"}
  /\ issued' = 0
  /\ lastEvent' = Event("owner", NoPayload, NoToast)
  /\ UNCHANGED <<scriptVars, urlVars, agentVars, prompt, selectedRepo, optionVars, submitVars,
                 repos, repoRequests>>

ParentSelectRepo(r) ==
  /\ Settled
  /\ r # selectedRepo
  /\ selectedRepo' = r
  /\ lastEvent' = Event("repo", NoPayload, NoToast)
  /\ UNCHANGED <<scriptVars, urlVars, agentVars, prompt, selectedOwner, optionVars, submitVars,
                 repoVars, pending>>

ParentFinishSubmitting ==
  /\ isSubmitting
  /\ isSubmitting' = FALSE
  /\ lastEvent' = Event("parent", NoPayload, NoToast)
  /\ UNCHANGED <<scriptVars, urlVars, agentVars, prompt, ownerVars, optionVars, keyChecks,
                 onSubmitCalls, repoVars, pending>>

\* ------------------------------------------------------------------------
\* Form controls
\* ------------------------------------------------------------------------
\* Textarea onChange (line 412)
SetPrompt(p) ==
  /\ Settled
  /\ ~isSubmitting
  /\ p # prompt
  /\ prompt' = p
  /\ lastEvent' = Event("prompt", NoPayload, NoToast)
  /\ UNCHANGED <<scriptVars, urlVars, agentVars, ownerVars, optionVars, submitVars, repoVars, pending>>

SelectAgentNotPersisted(v) ==
  /\ Settled
  /\ ~isSubmitting
  /\ selectedAgent' = v
  /\ pending' = IF v # selectedAgent \/ savedModel[v] # savedModel[selectedAgent]
                THEN {"model"} ELSE {}
  /\ chosenAgent' = v
  /\ chosenModel' = ""
  /\ lastEvent' = Event("agent", NoPayload, NoToast)
  /\ UNCHANGED <<scriptVars, urlVars, savedAgent, savedModel, selectedModel, prompt, ownerVars,
                 optionVars, submitVars, repoVars>>

\* agent Select onValueChange (lines 429-433)
SelectAgent(v) ==
  /\ Settled
  /\ ~isSubmitting
  /\ selectedAgent' = v
  /\ savedAgent' = v
  /\ pending' = IF v # selectedAgent \/ savedModel[v] # savedModel[selectedAgent]
                THEN {"model"} ELSE {}
  /\ chosenAgent' = v
  /\ chosenModel' = ""
  /\ lastEvent' = Event("agent", NoPayload, NoToast)
  /\ UNCHANGED <<scriptVars, urlVars, savedModel, selectedModel, prompt, ownerVars, optionVars,
                 submitVars, repoVars>>

\* model Select onValueChange (lines 470-474); its items are the models of
\* the selected agent (lines 481-485)
SelectModel(v) ==
  /\ Settled
  /\ ~isSubmitting
  /\ IsAgentModel(selectedAgent, v)
  /\ selectedModel' = v
  /\ savedModel' = [savedModel EXCEPT ![selectedAgent] = v]
  /\ pending' = IF savedModel[selectedAgent] # v THEN {"model"} ELSE {}
  /\ chosenModel' = v
  /\ lastEvent' = Event("model", NoPayload, NoToast)
  /\ UNCHANGED <<scriptVars, urlVars, savedAgent, selectedAgent, chosenAgent, prompt, ownerVars,
                 optionVars, submitVars, repoVars>>

\* updateInstallDependencies (lines 201-204)
updateInstallDependencies(value) ==
  /\ Settled
  /\ value # installDependencies
  /\ installDependencies' = value
  /\ lastEvent' = Event("option", NoPayload, NoToast)
  /\ UNCHANGED <<scriptVars, urlVars, agentVars, prompt, ownerVars, maxDuration, keepAlive,
                 submitVars, repoVars, pending>>

\* updateMaxDuration (lines 206-209)
updateMaxDuration(value) ==
  /\ Settled
  /\ value # maxDuration
  /\ maxDuration' = value
  /\ lastEvent' = Event("option", NoPayload, NoToast)
  /\ UNCHANGED <<scriptVars, urlVars, agentVars, prompt, ownerVars, installDependencies, keepAlive,
                 submitVars, repoVars, pending>>

\* updateKeepAlive (lines 211-214)
updateKeepAlive(value) ==
  /\ Settled
  /\ value # keepAlive
  /\ keepAlive' = value
  /\ lastEvent' = Event("option", NoPayload, NoToast)
  /\ UNCHANGED <<scriptVars, urlVars, agentVars, prompt, ownerVars, installDependencies, maxDuration,
                 submitVars, repoVars, pending>>

\* ------------------------------------------------------------------------
\* Submit (lines 217-234, 324-385)
\* ------------------------------------------------------------------------
findFirstOnly(cache, n) ==
  IF cache.isNull \/ cache.list = <<>> THEN 0
  ELSE IF cache.list[1].name = n THEN 1 ELSE 0

\* repos?.find((repo) => repo.name === selectedRepo): index of the first
\* match, 0 when there is none
find(cache, n) ==
  IF cache.isNull THEN 0
  ELSE LET I == {i \in 1..Len(cache.list) : cache.list[i].name = n}
       IN IF I = {} THEN 0 ELSE CHOOSE i \in I : \A j \in I : i <= j

PayloadUntrimmed(url) ==
  [prompt |-> prompt, repoUrl |-> url, selectedAgent |-> selectedAgent,
   selectedModel |-> selectedModel, installDependencies |-> installDependencies,
   maxDuration |-> maxDuration, keepAlive |-> keepAlive]

\* the object handed to onSubmit, built from the closure of one render
Payload(url) ==
  [prompt |-> trim(prompt), repoUrl |-> url, selectedAgent |-> selectedAgent,
   selectedModel |-> selectedModel, installDependencies |-> installDependencies,
   maxDuration |-> maxDuration, keepAlive |-> keepAlive]

\* onSubmit(p), from handler k; busy is the parent's answer, it may raise
\* isSubmitting
onSubmit(k, p, busy) ==
  /\ onSubmitCalls < MaxSubmits
  /\ onSubmitCalls' = onSubmitCalls + 1
  /\ isSubmitting' = (isSubmitting \/ busy)
  /\ lastEvent' = Event(k, p, NoToast)

\* handleSubmit up to its first await (lines 324-351)
handleSubmit(busy) ==
  /\ IF trim(prompt) = <<>>
     THEN /\ lastEvent' = Event("submit:empty", NoPayload, NoToast)
          /\ UNCHANGED submitVars
     ELSE IF selectedOwner = "" \/ selectedRepo = ""
     THEN /\ onSubmit("submit:norepo", Payload(""), busy)
          /\ UNCHANGED keyChecks
     ELSE LET i == find(repos[selectedOwner], selectedRepo)
          IN IF i # 0
             THEN /\ BagCardinality(keyChecks) < MaxKeyChecks
                  /\ keyChecks' = keyChecks (+)
                       SetToBag({Payload(repos[selectedOwner].list[i].clone_url)})
                  /\ lastEvent' = Event("submit:check", NoPayload, NoToast)
                  /\ UNCHANGED <<onSubmitCalls, isSubmitting>>
             ELSE /\ onSubmit("submit:nomatch", Payload(""), busy)
                  /\ UNCHANGED keyChecks
  /\ UNCHANGED <<scriptVars, urlVars, agentVars, prompt, ownerVars, optionVars, repoVars, pending>>

\* a submit event reaches the form (line 403); the submit button and the
\* textarea are disabled while isSubmitting (lines 414, 672)
SubmitEvent(busy) ==
  /\ ~isSubmitting
  /\ handleSubmit(busy)

\* handleTextareaKeyDown (lines 217-234)
handleTextareaKeyDown(key, shiftKey, isMobile, busy) ==
  /\ ~isSubmitting
  /\ IF key = "Enter" /\ ~isMobile /\ ~shiftKey /\ trim(prompt) # <<>>
     THEN handleSubmit(busy)
     ELSE /\ lastEvent' = Event("keydown", NoPayload, NoToast)
          /\ UNCHANGED <<scriptVars, urlVars, agentVars, prompt, ownerVars, optionVars, submitVars,
                         repoVars, pending>>

\* answers of GET /api/api-keys/check: a body { hasKey, provider }, or a
\* throw of fetch / response.json()
KeyCheckAnswers ==
  {[kind |-> "key:ok", provider |-> ""], [kind |-> "key:throws", provider |-> ""]}
    \cup {[kind |-> "key:nokey", provider |-> p] : p \in ResponseProviders}

KeyCheckResponseIgnoresHasKey(c, data, busy) ==
  /\ BagIn(c, keyChecks)
  /\ keyChecks' = keyChecks (-) SetToBag({c})
  /\ onSubmit(data.kind, c, busy)
  /\ UNCHANGED <<scriptVars, urlVars, agentVars, prompt, ownerVars, optionVars, repoVars, pending>>

KeyCheckResponseFailClosed(c, data, busy) ==
  /\ BagIn(c, keyChecks)
  /\ keyChecks' = keyChecks (-) SetToBag({c})
  /\ IF data.kind = "key:ok"
     THEN onSubmit(data.kind, c, busy)
     ELSE /\ lastEvent' = Event(data.kind, NoPayload, providerName(data.provider))
          /\ UNCHANGED <<onSubmitCalls, isSubmitting>>
  /\ UNCHANGED <<scriptVars, urlVars, agentVars, prompt, ownerVars, optionVars, repoVars, pending>>

KeyCheckResponseReadsState(c, data, busy) ==
  /\ BagIn(c, keyChecks)
  /\ keyChecks' = keyChecks (-) SetToBag({c})
  /\ IF data.kind = "key:nokey"
     THEN /\ lastEvent' = Event(data.kind, NoPayload, providerName(data.provider))
          /\ UNCHANGED <<onSubmitCalls, isSubmitting>>
     ELSE onSubmit(data.kind, Payload(c.repoUrl), busy)
  /\ UNCHANGED <<scriptVars, urlVars, agentVars, prompt, ownerVars, optionVars, repoVars, pending>>

\* handleSubmit after the await (lines 352-385), for the check c in flight
KeyCheckResponse(c, data, busy) ==
  /\ BagIn(c, keyChecks)
  /\ keyChecks' = keyChecks (-) SetToBag({c})
  /\ IF data.kind = "key:nokey"
     THEN /\ lastEvent' = Event(data.kind, NoPayload, providerName(data.provider))
          /\ UNCHANGED <<onSubmitCalls, isSubmitting>>
     ELSE onSubmit(data.kind, c, busy)
  /\ UNCHANGED <<scriptVars, urlVars, agentVars, prompt, ownerVars, optionVars, repoVars, pending>>

\* ------------------------------------------------------------------------
\* Database scripts (src/scripts/migrate.ts; src/unnamed/part_000, lines 1-61)
\* ------------------------------------------------------------------------
Scripts == {"migrate", "reset"}

\* process.env.POSTGRES_URL; "" stands for an unset variable too
UrlValues == {"", "postgres://db"}

\* the objects resetDatabase drops, in the order of its statements
\* (part_000, lines 28-38); the first is a schema, the others are tables
DROPS ==
  <<"drizzle", "anonymous_chat_logs", "chat_ownerships", "accounts", "connectors",
    "keys", "settings", "task_messages", "tasks", "users", "__drizzle_migrations">>

Objects == {DROPS[i] : i \in 1..Len(DROPS)}

\* new Error('POSTGRES_URL environment variable is required')
MissingUrl == "POSTGRES_URL environment variable is required"
\* rejections of migrate(...): a migration that fails, and anything else the
\* call throws
MigrationErrors == {"migration failed", "unexpected error"}
\* rejection of a statement the database could not run (connection lost,
\* permission denied)
StatementFailed == "statement failed"
DoesNotExist == "object does not exist"

At(l) == [at |-> l, i |-> 0]
AtDrop(k) == [at |-> "drop", i |-> k]

\* the form's process runs no script
NoScript ==
  /\ script = "none"
  /\ POSTGRES_URL = ""
  /\ pc = At("idle")
  /\ clients = 0
  /\ ended = 0
  /\ thrown = ""
  /\ raised = ""
  /\ exitCode = <<>>
  /\ tables = {}
  /\ started = {}
  /\ applied = 0
  /\ runs = 0

\* a script's process renders no form
NoForm ==
  /\ urlAgent = ""
  /\ urlModel = ""
  /\ savedAgent = ""
  /\ savedModel = [a \in Agents |-> ""]
  /\ selectedAgent = defaultAgent
  /\ selectedModel = DEFAULT_MODELS[defaultAgent]
  /\ prompt = <<>>
  /\ selectedOwner = ""
  /\ selectedRepo = ""
  /\ isSubmitting = FALSE
  /\ installDependencies = FALSE
  /\ maxDuration = 300
  /\ keepAlive = FALSE
  /\ repos = NoCache
  /\ pending = {}
  /\ repoRequests = [x \in Owners |-> 0]
  /\ keyChecks = EmptyBag
  /\ onSubmitCalls = 0
  /\ issued = 0
  /\ chosenAgent = ""
  /\ chosenModel = ""
  /\ lastEvent = Event("none", NoPayload, NoToast)

\* the script s before its first run, on a database holding the objects t
\* and having applied the first a migrations of the folder
Idle(s, t, a) ==
  /\ script = s
  /\ POSTGRES_URL = ""
  /\ pc = At("idle")
  /\ clients = 0
  /\ ended = 0
  /\ thrown = ""
  /\ raised = ""
  /\ exitCode = <<>>
  /\ tables = t
  /\ started = t
  /\ applied = a
  /\ runs = 0

\* the script is started (migrate.ts line 52, part_000 line 50) in a process
\* whose environment holds url
Run(url) ==
  /\ pc.at \in {"idle", "exited"}
  /\ runs < MaxRuns
  /\ runs' = runs + 1
  /\ POSTGRES_URL' = url
  /\ pc' = At("start")
  /\ clients' = 0
  /\ ended' = 0
  /\ thrown' = ""
  /\ raised' = ""
  /\ exitCode' = <<>>
  /\ started' = tables
  /\ UNCHANGED <<formVars, script, tables, applied>>

\* throw e
Throw(e, to) ==
  /\ thrown' = e
  /\ raised' = IF raised = "" THEN e ELSE raised
  /\ pc' = At(to)

\* if (!process.env.POSTGRES_URL) throw ... (migrate.ts 26-28, part_000 19-21)
CheckEnv ==
  /\ pc.at = "start"
  /\ IF POSTGRES_URL = ""
     THEN Throw(MissingUrl, "rejected")
     ELSE pc' = At("connect") /\ UNCHANGED <<thrown, raised>>
  /\ UNCHANGED <<formVars, script, POSTGRES_URL, clients, ended, exitCode, tables,
                 started, applied, runs>>

\* postgres(process.env.POSTGRES_URL, { max: 1 }) (migrate.ts 32, part_000 23)
Connect ==
  /\ pc.at = "connect"
  /\ clients' = clients + 1
  /\ pc' = IF script = "migrate" THEN At("migrate") ELSE AtDrop(1)
  /\ UNCHANGED <<formVars, script, POSTGRES_URL, ended, thrown, raised, exitCode,
                 tables, started, applied, runs>>

\* await migrate(drizzle(migrationClient), { migrationsFolder }) (migrate.ts
\* 34-40): it resolves with every migration of the folder applied, or rejects
\* with e, having applied up to a of them
Migrate(e, a) ==
  /\ pc.at = "migrate"
  /\ IF e = ""
     THEN /\ applied' = MaxMigrations
          /\ pc' = At("finally")
          /\ UNCHANGED <<thrown, raised>>
     ELSE /\ a >= applied
          /\ a = applied \/ a < MaxMigrations
          /\ applied' = a
          /\ Throw(e, "catch")
  /\ UNCHANGED <<formVars, script, POSTGRES_URL, clients, ended, exitCode, tables,
                 started, runs>>

DropWithoutIfExists(ok) ==
  /\ pc.at = "drop"
  /\ IF ~ok
     THEN Throw(StatementFailed, "catch") /\ UNCHANGED tables
     ELSE IF DROPS[pc.i] \notin tables
     THEN Throw(DoesNotExist, "catch") /\ UNCHANGED tables
     ELSE /\ tables' = tables \ {DROPS[pc.i]}
          /\ pc' = IF pc.i < Len(DROPS) THEN AtDrop(pc.i + 1) ELSE At("finally")
          /\ UNCHANGED <<thrown, raised>>
  /\ UNCHANGED <<formVars, script, POSTGRES_URL, clients, ended, exitCode, started,
                 applied, runs>>

\* await sql`DROP ... IF EXISTS <DROPS[pc.i]> CASCADE` (part_000 25-40); ok
\* tells whether the database ran the statement
Drop(ok) ==
  /\ pc.at = "drop"
  /\ IF ~ok
     THEN Throw(StatementFailed, "catch") /\ UNCHANGED tables
     ELSE /\ tables' = tables \ {DROPS[pc.i]}
          /\ pc' = IF pc.i < Len(DROPS) THEN AtDrop(pc.i + 1) ELSE At("finally")
          /\ UNCHANGED <<thrown, raised>>
  /\ UNCHANGED <<formVars, script, POSTGRES_URL, clients, ended, exitCode, started,
                 applied, runs>>

\* catch (error) { console.error(...); throw error } (migrate.ts 41-43,
\* part_000 41-43)
Catch ==
  /\ pc.at = "catch"
  /\ pc' = At("finally")
  /\ UNCHANGED <<formVars, script, POSTGRES_URL, clients, ended, thrown, raised,
                 exitCode, tables, started, applied, runs>>

FinallyOnSuccessOnly ==
  /\ pc.at = "finally"
  /\ ended' = IF thrown = "" THEN ended + 1 ELSE ended
  /\ pc' = IF thrown = "" THEN At("resolved") ELSE At("rejected")
  /\ UNCHANGED <<formVars, script, POSTGRES_URL, clients, thrown, raised, exitCode,
                 tables, started, applied, runs>>

\* finally { await client.end() } (migrate.ts 44-47, part_000 44-46), after
\* which the promise of the script settles
Finally ==
  /\ pc.at = "finally"
  /\ ended' = ended + 1
  /\ pc' = IF thrown = "" THEN At("resolved") ELSE At("rejected")
  /\ UNCHANGED <<formVars, script, POSTGRES_URL, clients, thrown, raised, exitCode,
                 tables, started, applied, runs>>

\* .then(() => process.exit(0)).catch(() => process.exit(1)) (migrate.ts
\* 53-60, part_000 51-58)
Exit ==
  /\ pc.at \in {"resolved", "rejected"}
  /\ exitCode' = IF pc.at = "resolved" THEN <<0>> ELSE <<1>>
  /\ pc' = At("exited")
  /\ UNCHANGED <<formVars, script, POSTGRES_URL, clients, ended, thrown, raised,
                 tables, started, applied, runs>>

\* ------------------------------------------------------------------------
\* Specifications
\* ------------------------------------------------------------------------
Submits ==
  \/ \E busy \in BOOLEAN : SubmitEvent(busy)
  \/ \E key \in {"Enter", "a"} : \E shiftKey \in BOOLEAN : \E isMobile \in BOOLEAN :
       \E busy \in BOOLEAN : handleTextareaKeyDown(key, shiftKey, isMobile, busy)

\* Agent and model selection: the form is mounted with every combination of
\* URL parameters and persisted selections; no repository list is loaded.
InitAgent ==
  \E uA \in UrlAgentValues : \E uM \in UrlModelValues : \E sA \in SavedAgentValues :
    \E sM \in SavedModelValues : \E or \in {<<"", "r1">>, <<"o1", "">>} :
      /\ Mount(uA, uM, sA, sM, <<" ", "x", "\n">>, or[1], or[2], NoCache, FALSE, 300, FALSE)
      /\ NoScript

NextAgent ==
  \/ RunEffects
  \/ \E v \in Agents : SelectAgent(v)
  \/ \E v \in {DEFAULT_MODELS[a] : a \in Agents} : SelectModel(v)
  \/ \E b \in BOOLEAN : updateInstallDependencies(b)
  \/ Submits
  \/ ParentFinishSubmitting

SpecAgent == InitAgent /\ [][NextAgent]_vars

\* Submission: the form is mounted for an owner whose repositories may
\* already be cached; the prompt, the repository and an option change, and
\* the API-key checks are answered in any order.
Cached(o, l) == [NoCache EXCEPT ![o] = RepoList(l)]

InitSubmit ==
  \E sA \in {"", "claude"} :
    \E oc \in {<<"", NoCache>>, <<"o1", NoCache>>,
               <<"o1", Cached("o1", <<GitHubRepo("o1", "r2"), GitHubRepo("o1", "r1")>>)>>} :
      /\ Mount("", "", sA, [a \in Agents |-> ""], <<>>, oc[1], "", oc[2], FALSE, 300, FALSE)
      /\ NoScript

NextSubmit ==
  \/ RunEffects
  \/ \E p \in Prompts : SetPrompt(p)
  \/ \E b \in BOOLEAN : updateKeepAlive(b)
  \/ \E r \in RepoNames : ParentSelectRepo(r)
  \/ Submits
  \/ \E c \in BagToSet(keyChecks) : \E data \in KeyCheckAnswers : \E busy \in BOOLEAN :
       KeyCheckResponse(c, data, busy)
  \/ \E kind \in {"repos:notok", "repos:throws"} : RepoResponse("o1", kind, <<>>)
  \/ ParentFinishSubmitting

SpecSubmit == InitSubmit /\ [][NextSubmit]_vars

\* Repository lists: the owner changes while listing requests are answered
\* in any order, among other form events.
InitRepos ==
  /\ Mount("", "", "", [a \in Agents |-> ""], <<>>, "", "", NoCache, FALSE, 300, FALSE)
  /\ NoScript

NextRepos ==
  \/ RunEffects
  \/ \E o \in Owners : ParentSelectOwner(o)
  \/ \E o \in Owners \ {""} : \E l \in RepoLists(o) : RepoResponse(o, "repos:ok", l)
  \/ \E o \in Owners \ {""} : RepoResponse(o, "repos:notok", <<>>)
  \/ \E o \in Owners \ {""} : RepoResponse(o, "repos:throws", <<>>)
  \/ \E p \in {<<>>, <<"x">>} : SetPrompt(p)
  \/ \E v \in {"claude"} : SelectAgent(v)
  \/ \E v \in {DEFAULT_MODELS["claude"]} : SelectModel(v)
  \/ \E d \in Durations : updateMaxDuration(d)
  \/ Submits
  \/ ParentFinishSubmitting

SpecRepos == InitRepos /\ [][NextRepos]_vars

\* Edits during a check: the form is mounted for an owner whose list is
\* cached and a repository of that list; the agent, the model, the prompt and
\* an option change while API-key checks are in flight.
InitFlight ==
  /\ Mount("", "", "", [a \in Agents |-> ""], <<"x">>, "o1", "r1",
           Cached("o1", <<GitHubRepo("o1", "r2"), GitHubRepo("o1", "r1")>>),
           FALSE, 300, FALSE)
  /\ NoScript

NextFlight ==
  \/ RunEffects
  \/ \E v \in {"codex", "claude"} : SelectAgent(v)
  \/ \E v \in {DEFAULT_MODELS["codex"], DEFAULT_MODELS["claude"]} : SelectModel(v)
  \/ \E p \in {<<"x">>, <<" ", "x", "\n">>} : SetPrompt(p)
  \/ \E b \in BOOLEAN : updateInstallDependencies(b)
  \/ \E busy \in BOOLEAN : SubmitEvent(busy)
  \/ \E c \in BagToSet(keyChecks) : \E busy \in BOOLEAN :
       \E data \in {d \in KeyCheckAnswers : d.provider \in {"", "anthropic"}} :
         KeyCheckResponse(c, data, busy)
  \/ ParentFinishSubmitting

SpecFlight == InitFlight /\ [][NextFlight]_vars

\* runMigrations: the migration script is run, and run again, with and
\* without POSTGRES_URL, on a database at any stage of the folder.
InitMigrate ==
  /\ NoForm
  /\ \E a \in 0..MaxMigrations : Idle("migrate", {}, a)

NextMigrate ==
  \/ \E url \in UrlValues : Run(url)
  \/ CheckEnv
  \/ Connect
  \/ \E e \in MigrationErrors \cup {""} : \E a \in 0..MaxMigrations : Migrate(e, a)
  \/ Catch
  \/ Finally
  \/ Exit

SpecMigrate == InitMigrate /\ [][NextMigrate]_vars

\* resetDatabase: the reset script is run, and run again, on a database
\* holding any subset of the objects it names.
InitReset ==
  /\ NoForm
  /\ \E t \in SUBSET Objects : Idle("reset", t, 0)

NextReset ==
  \/ \E url \in UrlValues : Run(url)
  \/ CheckEnv
  \/ Connect
  \/ \E ok \in BOOLEAN : Drop(ok)
  \/ Catch
  \/ Finally
  \/ Exit

SpecReset == InitReset /\ [][NextReset]_vars

\* ------------------------------------------------------------------------
\* Properties
\* ------------------------------------------------------------------------
IsBlank(s) == \A i \in 1..Len(s) : s[i] \in Whitespace

\* t is s without its leading and trailing whitespace
IsTrimOf(t, s) ==
  /\ t = <<>> \/ (t[1] \notin Whitespace /\ t[Len(t)] \notin Whitespace)
  /\ \E i \in 0..Len(s) : \E j \in i..Len(s) :
       /\ t = SubSeq(s, i + 1, j)
       /\ \A k \in 1..i : s[k] \in Whitespace
       /\ \A k \in (j + 1)..Len(s) : s[k] \in Whitespace

ModelSet(a) == {AGENT_MODELS[a][i] : i \in 1..Len(AGENT_MODELS[a])}

NonEmptyCache(o) == ~repos[o].isNull /\ repos[o].list # <<>>

\* a step that delivers a submit to the form: the submit event itself, or
\* Enter without Shift on a wide viewport
SubmitStep ==
  \/ \E busy \in BOOLEAN : SubmitEvent(busy)
  \/ \E busy \in BOOLEAN : handleTextareaKeyDown("Enter", FALSE, FALSE, busy)

\* C1: a submit whose prompt is empty or all whitespace calls onSubmit not
\* at all and issues no API-key check, whatever the rest of the form holds.
C1_BlankPromptSubmitsNothing ==
  [][(Submits /\ IsBlank(prompt)) => UNCHANGED <<onSubmitCalls, keyChecks>>]_vars

C1_Witness ==
  /\ lastEvent.kind = "submit:empty"
  /\ prompt = <<" ", "\n">>
  /\ selectedAgent = "claude"
  /\ keepAlive
  /\ find(repos[selectedOwner], selectedRepo) # 0

\* C2: when the API-key check answers that there is no key, that submit
\* forwards no payload, a toast names the provider, the check is no longer
\* in flight and the form is left as it was (isSubmitting is not raised).
ExpectedProviderName(p) ==
  CASE p = "anthropic" -> "Anthropic"
    [] p = "aigateway" -> "AI Gateway"
    [] OTHER -> p

C2_NoKeyAborts ==
  [][\A c \in BagToSet(keyChecks) : \A p \in ResponseProviders : \A busy \in BOOLEAN :
       KeyCheckResponse(c, [kind |-> "key:nokey", provider |-> p], busy) =>
         /\ onSubmitCalls' = onSubmitCalls
         /\ lastEvent'.payload = NoPayload
         /\ lastEvent'.toast = ExpectedProviderName(p)
         /\ isSubmitting' = isSubmitting
         /\ BagCardinality(keyChecks') = BagCardinality(keyChecks) - 1
         /\ UNCHANGED <<prompt, agentVars, optionVars, ownerVars>>]_vars

C2_Witness ==
  /\ lastEvent.kind = "key:nokey"
  /\ lastEvent.toast = "Anthropic"
  /\ onSubmitCalls = 0
  /\ ~isSubmitting
  /\ keyChecks = EmptyBag

\* C3: when the API-key check throws (network error, unparsable body), the
\* submit goes on: onSubmit receives the payload of that submit and no toast
\* is shown.
C3_CheckFailureProceeds ==
  [][\A c \in BagToSet(keyChecks) : \A busy \in BOOLEAN :
       KeyCheckResponse(c, [kind |-> "key:throws", provider |-> ""], busy) =>
         /\ onSubmitCalls' = onSubmitCalls + 1
         /\ lastEvent'.payload = c
         /\ lastEvent'.toast = NoToast]_vars

C3_Witness ==
  /\ lastEvent.kind = "key:throws"
  /\ lastEvent.payload.repoUrl = <<"o1", "r1">>
  /\ lastEvent.payload.prompt = <<"x">>
  /\ onSubmitCalls = 1

\* C4: once the user has picked agent A and then model M, a submit with a
\* non-blank prompt and no owner or no repository issues no API-key check
\* and hands onSubmit repoUrl "", A, M, the trimmed prompt and the options
\* as they are.
C4_PickedPairSubmitted ==
  [][(/\ SubmitStep
      /\ ~IsBlank(prompt)
      /\ selectedOwner = "" \/ selectedRepo = ""
      /\ chosenAgent # "" /\ chosenModel # "")
     => /\ keyChecks' = keyChecks
        /\ onSubmitCalls' = onSubmitCalls + 1
        /\ lastEvent'.payload.repoUrl = ""
        /\ lastEvent'.payload.selectedAgent = chosenAgent
        /\ lastEvent'.payload.selectedModel = chosenModel
        /\ IsTrimOf(lastEvent'.payload.prompt, prompt)
        /\ lastEvent'.payload.installDependencies = installDependencies
        /\ lastEvent'.payload.maxDuration = maxDuration
        /\ lastEvent'.payload.keepAlive = keepAlive]_vars

C4_Witness ==
  /\ lastEvent.kind = "submit:norepo"
  /\ chosenAgent = "opencode"
  /\ chosenModel = "gemini-3-pro-preview"
  /\ lastEvent.payload.selectedAgent = "opencode"
  /\ lastEvent.payload.prompt = <<"x">>
  /\ lastEvent.payload.installDependencies
  /\ selectedOwner = "o1"

\* C5: from the moment agent A is picked (and until a model is picked) the
\* persisted agent is A, and once the effects have run selectedModel is the
\* persisted model of A if A still lists it and otherwise the default model
\* of A.
ResolvedModel(a) ==
  IF savedModel[a] \in ModelSet(a) THEN savedModel[a] ELSE DEFAULT_MODELS[a]

C5_AgentChangeResolvesModel ==
  (chosenAgent # "" /\ chosenModel = "") =>
    /\ savedAgent = chosenAgent
    /\ selectedAgent = chosenAgent
    /\ Settled => selectedModel = ResolvedModel(chosenAgent)
    /\ (Settled /\ chosenAgent = "codex") => selectedModel = "gpt-5.1-codex"

C5_Witness ==
  /\ chosenAgent = "claude"
  /\ chosenModel = ""
  /\ Settled
  /\ savedModel["claude"] = StaleModel
  /\ selectedModel = "claude-sonnet-4-5-20250929"
  /\ savedAgent = "claude"

\* C6: once the effects of the mount have run (and nothing was picked yet),
\* selectedModel is the URL model if the resolved agent lists it, otherwise
\* the persisted model of that agent if it lists it, otherwise its default.
NothingPicked == chosenAgent = "" /\ chosenModel = ""

C6_MountResolvesModel ==
  (NothingPicked /\ Settled) =>
    selectedModel =
      IF urlModel \in ModelSet(selectedAgent) THEN urlModel
      ELSE ResolvedModel(selectedAgent)

C6_Witness ==
  /\ NothingPicked
  /\ Settled
  /\ urlAgent = "claude"
  /\ urlModel = "claude-sonnet-4-5-20250929"
  /\ savedModel["claude"] = StaleModel
  /\ selectedModel = urlModel

\* C7: once the effects of the mount have run, selectedAgent is the URL
\* agent if CODING_AGENTS lists it, otherwise the persisted agent if listed,
\* otherwise codex; an unlisted agent is never adopted.
C7_MountResolvesAgent ==
  /\ selectedAgent \in Agents
  /\ (NothingPicked /\ Settled) =>
       selectedAgent =
         IF urlAgent \in Agents THEN urlAgent
         ELSE IF savedAgent \in Agents THEN savedAgent
         ELSE "codex"

C7_Witness ==
  /\ NothingPicked
  /\ Settled
  /\ urlAgent = "opencode"
  /\ savedAgent = "claude"
  /\ selectedAgent = "opencode"

\* C8: no listing request is issued for an owner whose cached list is
\* non-empty, whatever other handlers run.
C8_CachedOwnerNotRefetched ==
  [][\A o \in Owners : repoRequests'[o] > repoRequests[o] => ~NonEmptyCache(o)]_vars

C8_Witness ==
  /\ selectedOwner = "o1"
  /\ NonEmptyCache("o1")
  /\ Settled
  /\ repoRequests["o1"] = 0
  /\ lastEvent.kind = "submit:norepo"
  /\ chosenAgent = "claude"
  /\ chosenModel = "claude-sonnet-4-5-20250929"
  /\ maxDuration = 5

\* C9: while the owner stays the same, exactly one listing request is issued
\* for it if its list was not cached, whatever the answer.
C9_OneRequestPerOwner ==
  /\ issued <= 1
  /\ (Settled /\ selectedOwner # "" /\ ~NonEmptyCache(selectedOwner)) => issued = 1

\* C10: every payload handed to onSubmit names a listed agent and a model
\* that this agent lists.
C10_PayloadPairValid ==
  lastEvent.payload # NoPayload =>
    /\ lastEvent.payload.selectedAgent \in Agents
    /\ lastEvent.payload.selectedModel \in ModelSet(lastEvent.payload.selectedAgent)

\* the promise of the script has settled
HasSettled == pc.at \in {"resolved", "rejected", "exited"}

\* C11: without POSTGRES_URL runMigrations creates no client and rejects with
\* the missing-variable error; with it, a run that has settled has created
\* exactly one client and ended it exactly once, whether migrate resolved,
\* a migration failed or the call threw something else, and a rejection
\* carries the error that was raised first.  The exit code is 0 exactly
\* when nothing was raised.
C11_MigrateClosesConnection ==
  script = "migrate" =>
    /\ clients <= 1
    /\ ended <= clients
    /\ POSTGRES_URL = "" =>
         /\ clients = 0
         /\ pc.at \in {"idle", "start", "rejected", "exited"}
         /\ HasSettled => thrown = MissingUrl
    /\ (POSTGRES_URL # "" /\ HasSettled) => clients = 1 /\ ended = 1
    /\ pc.at = "rejected" => thrown # "" /\ thrown = raised
    /\ pc.at = "resolved" => raised = "" /\ thrown = ""
    /\ pc.at = "exited" => exitCode = IF raised = "" THEN <<0>> ELSE <<1>>

C11_Witness ==
  /\ script = "migrate"
  /\ runs = 2
  /\ pc.at = "rejected"
  /\ thrown = "migration failed"
  /\ applied = 1
  /\ clients = 1
  /\ ended = 1

C13_OneCheckInFlight ==
  /\ BagCardinality(keyChecks) <= 1
  /\ keyChecks # EmptyBag => lastEvent.kind \notin {"submit:norepo", "submit:nomatch"}

\* the entries of the cached list of owner o that are named n
Entries(o, n) ==
  IF repos[o].isNull THEN {}
  ELSE {repos[o].list[i] : i \in {j \in 1..Len(repos[o].list) : repos[o].list[j].name = n}}

\* C14: a submit with a non-blank prompt, an owner and a repository starts
\* one API-key check, and forwards nothing yet, exactly when the cached list
\* of the owner has an entry named like the repository; the payload held for
\* that check carries the entry's clone URL and is the one forwarded when the
\* check lets the submit go on.  With no such entry (the list is null while
\* the listing request is in flight or after it failed, or the list names
\* other repositories) no check starts and the payload is forwarded at once
\* with repoUrl "".
C14_CheckIffRepoCached ==
  [][/\ (/\ SubmitStep
         /\ ~IsBlank(prompt)
         /\ selectedOwner # "" /\ selectedRepo # "")
        => IF Entries(selectedOwner, selectedRepo) # {}
           THEN /\ onSubmitCalls' = onSubmitCalls
                /\ \E e \in Entries(selectedOwner, selectedRepo) :
                     \E c \in BagToSet(keyChecks') :
                       /\ c.repoUrl = e.clone_url
                       /\ keyChecks' = keyChecks (+) SetToBag({c})
           ELSE /\ keyChecks' = keyChecks
                /\ onSubmitCalls' = onSubmitCalls + 1
                /\ lastEvent'.payload.repoUrl = ""
     /\ \A c \in BagToSet(keyChecks) : \A busy \in BOOLEAN :
          KeyCheckResponse(c, [kind |-> "key:ok", provider |-> ""], busy) =>
            /\ onSubmitCalls' = onSubmitCalls + 1
            /\ lastEvent'.payload.repoUrl = c.repoUrl]_vars

C14_Witness ==
  /\ lastEvent.kind = "submit:nomatch"
  /\ selectedOwner = "o1"
  /\ selectedRepo = "r1"
  /\ repos["o1"].isNull
  /\ repoRequests["o1"] = 1
  /\ lastEvent.payload.repoUrl = ""
  /\ lastEvent.payload.prompt = <<"x">>
  /\ keyChecks = EmptyBag

\* C15: the payload held for an API-key check carries the agent, the model,
\* the trimmed prompt and the options of the commit its submit ran on (the
\* pair the check is requested for), and when the check answers and the
\* submit goes on, the payload forwarded is the one held for that check,
\* whatever the form holds by then.
C15_PayloadIsSubmitClosure ==
  [][/\ (lastEvent'.kind = "submit:check" /\ keyChecks' # keyChecks) =>
          \E c \in BagToSet(keyChecks') :
            /\ keyChecks' = keyChecks (+) SetToBag({c})
            /\ c.selectedAgent = selectedAgent
            /\ c.selectedModel = selectedModel
            /\ IsTrimOf(c.prompt, prompt)
            /\ c.installDependencies = installDependencies
            /\ c.maxDuration = maxDuration
            /\ c.keepAlive = keepAlive
     /\ (lastEvent'.kind \in {"key:ok", "key:throws"} /\ keyChecks' # keyChecks) =>
          /\ onSubmitCalls' = onSubmitCalls + 1
          /\ BagIn(lastEvent'.payload, keyChecks)
          /\ keyChecks' = keyChecks (-) SetToBag({lastEvent'.payload})]_vars

C15_Witness ==
  /\ lastEvent.kind = "key:ok"
  /\ lastEvent.payload.selectedAgent = "codex"
  /\ lastEvent.payload.selectedModel = "gpt-5.1-codex"
  /\ lastEvent.payload.prompt = <<"x">>
  /\ ~lastEvent.payload.installDependencies
  /\ Settled
  /\ selectedAgent = "claude"
  /\ selectedModel = "claude-sonnet-4-5-20250929"
  /\ prompt = <<" ", "x", "\n">>
  /\ installDependencies

\* C16: a cached list changes only through an OK answer to a listing request
\* that was in flight for that very owner, and one answer changes one list:
\* an answer for an owner that is no longer selected leaves the list of the
\* selected owner alone, and a non-OK or thrown answer changes no list.
C16_ResponseWritesOwnCache ==
  [][/\ \A o \in Owners :
          repos'[o] # repos[o] =>
            /\ lastEvent'.kind = "repos:ok"
            /\ repoRequests[o] > 0
            /\ repoRequests'[o] = repoRequests[o] - 1
            /\ \A x \in Owners \ {o} : repos'[x] = repos[x]
     /\ (lastEvent'.kind \in {"repos:notok", "repos:throws"} /\ repoRequests' # repoRequests)
          => repos' = repos]_vars

C16_Witness ==
  /\ lastEvent.kind = "repos:ok"
  /\ selectedOwner = "o2"
  /\ repos["o2"].isNull
  /\ repoRequests["o2"] = 1
  /\ repoRequests["o1"] = 0
  /\ repos["o1"] = RepoList(<<GitHubRepo("o1", "r2"), GitHubRepo("o1", "r1")>>)

====
